---- MODULE Spec2Model ----
(***************************************************************************)
(* Vector store management layer of lucene-test-data:                      *)
(*   scripts/generate_embeddings/vec_io.py     (.vec codec, shard writers) *)
(*   scripts/generate_embeddings/dedup_vecs.py (dedup / re-shard tool)     *)
(*   scripts/generate_embeddings/generate_embeddings.py (generator run)    *)
(*   bge-m3-model/model.py                     (embedding handler)         *)
(*                                                                         *)
(* Files are sequences of bytes (0..255); a directory is a function from   *)
(* file names to contents whose DOMAIN is the set of files that exist.     *)
(* A manifest is the parsed JSON object: a function from keys to values.   *)
(***************************************************************************)
EXTENDS Integers, Sequences, FiniteSets, TLC

VARIABLES
    plan,       \* SpecPlan: one (n, k) and the partitions computed for it
    w,          \* the StreamingVecWriter object (dim, num_shards, _count, closed)
    V,          \* every vector handed to append_batch so far, in call order
    sdir,       \* the streaming writer's output_dir: file name -> bytes
    sret,       \* what finalize returned
    mdir,       \* write_vec_shards' output_dir: file name -> bytes
    mret,       \* what write_vec_shards returned
    files,      \* the dataset directory of the dedup tool: .vec files, temp, backups
    manifests,  \* meta.json and its backup in the dataset directory
    last,       \* the most recent run on the dataset directory and what it reported
    before,     \* the dataset directory as it was when that run started
    gens,       \* generator runs so far on the dataset directory
    raised,     \* the latest writer call that was made outside the normal lifecycle
    pool,       \* the _write_shard tasks of one write_vec_shards call
    mw,         \* one manifest write in progress and what a reader has seen of it
    proc,       \* one dedup apply process, step by step, that may be killed
    model,      \* model.py: the handler module's global model (None until loaded)
    tokenizer,  \* model.py: the handler module's global tokenizer
    req,        \* the handle calls in progress: position and local values of each
    calls       \* how many times get_model has been executed

planVars == <<plan>>
writerVars == <<w, V, sdir, sret, mdir, mret>>
dedupVars == <<files, manifests, last, before, gens>>
handlerVars == <<model, tokenizer, req, calls>>
auxVars == <<raised, pool, mw, proc, model, tokenizer, req, calls>>
vars == <<plan, w, V, sdir, sret, mdir, mret, files, manifests, last, before, gens,
          raised, pool, mw, proc, model, tokenizer, req, calls>>

---------------------------------------------------------------------------
(* Bounds of the model *)

MaxN == 8          \* SpecPlan: largest total n
MaxK == 5          \* SpecPlan: largest shard count k
MaxVecs == 3       \* most vectors in one dataset / one writer
MaxBatch == 2      \* most vectors in one append_batch call
MaxShards == 3     \* largest num_shards of a writer or generator run
MaxCalls == 3      \* most append_batch calls on one writer
MaxGens == 2       \* SpecRegen: generator runs on one dataset directory
RegenVecs == 2     \* SpecRegen: most vectors in one dataset
CfgVecs == 2       \* SpecConfig: most vectors in one dataset
CfgShards == 2     \* SpecConfig: largest shard count
MaxRequests == 3   \* SpecHandler: handle calls running at the same time

Dims == {1, 2}     \* vector dimensions tried
RegenDims == {1}   \* SpecRegen: vector dimensions tried
RegenShards == {1, 2}  \* SpecRegen: num_shards tried
Comps == {0, 1}    \* float components tried (0.0 and 1.0)
CfgDims == {0, 1}  \* SpecConfig: vector dimensions tried, the bad dimension 0 included

---------------------------------------------------------------------------
(* Vec codec: struct.pack("<{dim}f", *vec) *)

RECURSIVE Log2Floor(_)
Log2Floor(a) == IF a <= 1 THEN 0 ELSE 1 + Log2Floor(a \div 2)

RECURSIVE Pow2(_)
Pow2(e) == IF e = 0 THEN 1 ELSE 2 * Pow2(e - 1)

\* IEEE-754 binary32 of an integer-valued float |x| < 2^24, little-endian:
\* sign bit, 8-bit biased exponent, 23-bit fraction.
PackFloat(x) ==
    IF x = 0 THEN <<0, 0, 0, 0>>
    ELSE LET sgn  == IF x < 0 THEN 1 ELSE 0
             a    == IF x < 0 THEN -x ELSE x
             e    == Log2Floor(a)
             bexp == e + 127
             frac == (a - Pow2(e)) * Pow2(23 - e)
         IN  << frac % 256,
                (frac \div 256) % 256,
                (bexp % 2) * 128 + (frac \div 65536),
                sgn * 128 + (bexp \div 2) >>

RECURSIVE struct_pack(_)
struct_pack(vec) ==
    IF vec = <<>> THEN <<>> ELSE PackFloat(Head(vec)) \o struct_pack(Tail(vec))

\* The vectors of length d over Comps, and the sequences of at most n of them.
Vectors(d) == [1..d -> Comps]
SeqsUpTo(S, n) == UNION {[1..m -> S] : m \in 0..n}

\* bytes[lo+1 .. hi] (Python's bytes[lo:hi])
Slice(s, lo, hi) == SubSeq(s, lo + 1, hi)

RECURSIVE SumSeq(_)
SumSeq(s) == IF s = <<>> THEN 0 ELSE Head(s) + SumSeq(Tail(s))

RECURSIVE Concat(_)
Concat(ss) == IF ss = <<>> THEN <<>> ELSE Head(ss) \o Concat(Tail(ss))

---------------------------------------------------------------------------
(* Shard partition, as each of the three writers computes it *)

\* vec_io.py:62  count = per_shard + (1 if s < remainder else 0)
wvs_count(s, per_shard, remainder) == per_shard + (IF s < remainder THEN 1 ELSE 0)

\* vec_io.py:61-64  the slices loop of write_vec_shards
RECURSIVE wvs_slices_loop(_, _, _, _, _, _)
wvs_slices_loop(s, start, slices, per_shard, remainder, num_shards) ==
    IF s >= num_shards THEN slices
    ELSE LET count == wvs_count(s, per_shard, remainder)
         IN  wvs_slices_loop(s + 1, start + count,
                             Append(slices, <<start, start + count>>),
                             per_shard, remainder, num_shards)

\* vec_io.py:55-68  (shard_sizes, shard_offsets) of write_vec_shards
wvs_plan(n, num_shards) ==
    LET per_shard == n \div num_shards
        remainder == n % num_shards
        slices    == wvs_slices_loop(0, 0, <<>>, per_shard, remainder, num_shards)
    IN  [sizes   |-> [i \in 1..Len(slices) |-> slices[i][2] - slices[i][1]],
         offsets |-> [i \in 1..Len(slices) |-> slices[i][1]],
         slices  |-> slices]

\* vec_io.py:136  count = per_shard + (1 if s < remainder else 0)
fin_count(s, per_shard, remainder) == per_shard + (IF s < remainder THEN 1 ELSE 0)

\* vec_io.py:135-148  the shard loop of StreamingVecWriter.finalize
RECURSIVE fin_loop(_, _, _, _, _, _, _)
fin_loop(s, offset, sizes, offsets, per_shard, remainder, num_shards) ==
    IF s >= num_shards THEN [sizes |-> sizes, offsets |-> offsets]
    ELSE LET count == fin_count(s, per_shard, remainder)
         IN  fin_loop(s + 1, offset + count, Append(sizes, count),
                      Append(offsets, offset), per_shard, remainder, num_shards)

\* vec_io.py:117-148  (shard_sizes, shard_offsets) of finalize
fin_plan(n, num_shards) ==
    IF num_shards <= 1 THEN [sizes |-> <<n>>, offsets |-> <<0>>]
    ELSE fin_loop(0, 0, <<>>, <<>>, n \div num_shards, n % num_shards, num_shards)

dedup_count_larger_through_remainder(s, per_shard, remainder) ==
    per_shard + (IF s <= remainder THEN 1 ELSE 0)

\* dedup_vecs.py:137  count = per_shard + (1 if s < remainder else 0)
dedup_count(s, per_shard, remainder) == per_shard + (IF s < remainder THEN 1 ELSE 0)

\* dedup_vecs.py:136-140  the shard loop of the re-shard step
RECURSIVE reshard_loop(_, _, _, _, _, _, _)
reshard_loop(s, offset, sizes, offsets, per_shard, remainder, num_shards) ==
    IF s >= num_shards THEN [sizes |-> sizes, offsets |-> offsets]
    ELSE LET count == dedup_count(s, per_shard, remainder)
         IN  reshard_loop(s + 1, offset + count, Append(sizes, count),
                          Append(offsets, offset), per_shard, remainder, num_shards)

\* dedup_vecs.py:128-140  (new_shard_sizes, new_shard_offsets)
reshard_plan(unique_count, num_shards) ==
    reshard_loop(0, 0, <<>>, <<>>, unique_count \div num_shards,
                 unique_count % num_shards, num_shards)

---------------------------------------------------------------------------
(* SpecPlan: the three partitions computed for one (n, k) *)

NoPlan == [sizes |-> <<>>, offsets |-> <<>>]

PlanIdle == [n |-> 0, k |-> 1, done |-> {}, wvs |-> NoPlan, fin |-> NoPlan, ded |-> NoPlan]

PlanInit ==
    plan \in {[n |-> n, k |-> k, done |-> {}, wvs |-> NoPlan, fin |-> NoPlan,
               ded |-> NoPlan] : n \in 0..MaxN, k \in 1..MaxK}

PlanWriteVecShards ==
    /\ "wvs" \notin plan.done
    /\ LET p == wvs_plan(plan.n, plan.k)
       IN  plan' = [plan EXCEPT !.wvs = [sizes |-> p.sizes, offsets |-> p.offsets],
                                !.done = @ \cup {"wvs"}]

PlanFinalize ==
    /\ "fin" \notin plan.done
    /\ plan' = [plan EXCEPT !.fin = fin_plan(plan.n, plan.k), !.done = @ \cup {"fin"}]

PlanReshard ==
    /\ "ded" \notin plan.done
    /\ plan' = [plan EXCEPT !.ded = reshard_plan(plan.n, plan.k), !.done = @ \cup {"ded"}]

---------------------------------------------------------------------------
(* File system helpers *)

STREAM_TMP == "_docs_streaming.vec.tmp"
DOCS_VEC == "docs.vec"
ShardName(i) == "docs-shard-" \o ToString(i) \o ".vec"

\* open(path, "wb") ... write ... close: the file holds exactly `bytes`
WriteFile(dir, path, bytes) ==
    [f \in DOMAIN dir \cup {path} |-> IF f = path THEN bytes ELSE dir[f]]

\* Path.unlink
Unlink(dir, path) == [f \in DOMAIN dir \ {path} |-> dir[f]]

\* Path.rename (POSIX: silently replaces an existing target)
Rename(dir, src, dst) ==
    [f \in (DOMAIN dir \ {src}) \cup {dst} |-> IF f = dst THEN dir[src] ELSE dir[f]]

\* f.read(size) at position pos: at most size bytes, fewer at end of file
ReadAt(bytes, pos, size) ==
    LET hi == IF pos + size > Len(bytes) THEN Len(bytes) ELSE pos + size
    IN  IF pos >= Len(bytes) THEN <<>> ELSE Slice(bytes, pos, hi)

Min(a, b) == IF a < b THEN a ELSE b

\* 8 * 1024 * 1024: the copy buffer of finalize and of the re-shard step
COPY_CHUNK == 8 * 1024 * 1024

---------------------------------------------------------------------------
(* write_vec_file and write_vec_shards (the in-memory path) *)

\* vec_io.py:17-20  the loop of write_vec_file; a vector of the wrong length
\* raises ValueError and leaves what was written before it
RECURSIVE write_vec_loop(_, _, _)
write_vec_loop(vectors, dim, out) ==
    IF vectors = <<>> THEN [bytes |-> out, ok |-> TRUE]
    ELSE IF Len(Head(vectors)) # dim THEN [bytes |-> out, ok |-> FALSE]
    ELSE write_vec_loop(Tail(vectors), dim, out \o struct_pack(Head(vectors)))

\* vec_io.py:11-21
write_vec_file(dir, path, vectors, dim) ==
    LET r == write_vec_loop(vectors, dim, <<>>)
    IN  [dir |-> WriteFile(dir, path, r.bytes), ok |-> r.ok]

\* vec_io.py:71-76  one _write_shard task per shard, all joined by pool.map
RECURSIVE wvs_write_all(_, _, _, _, _)
wvs_write_all(i, dir, vectors, slices, dim) ==
    IF i >= Len(slices) THEN dir
    ELSE LET begin == slices[i + 1][1]
             end   == slices[i + 1][2]
             r     == write_vec_file(dir, ShardName(i), Slice(vectors, begin, end), dim)
         IN  wvs_write_all(i + 1, r.dir, vectors, slices, dim)

\* vec_io.py:45-78
write_vec_shards(dir, vectors, dim, num_shards) ==
    LET p == wvs_plan(Len(vectors), num_shards)
    IN  [dir |-> wvs_write_all(0, dir, vectors, p.slices, dim),
         ret |-> [paths   |-> [i \in 1..num_shards |-> ShardName(i - 1)],
                  sizes   |-> p.sizes,
                  offsets |-> p.offsets]]

\* vec_io.py:66-74  the work list of write_vec_shards: one (path, slice, dim)
\* per shard, with the task's progress
pool_submit(vectors, dim, num_shards) ==
    LET p == wvs_plan(Len(vectors), num_shards)
    IN  [i \in 1..num_shards |->
            [st      |-> "queued",
             path    |-> ShardName(i - 1),
             begin   |-> p.slices[i][1],
             end     |-> p.slices[i][2],
             vectors |-> Slice(vectors, p.slices[i][1], p.slices[i][2]),
             written |-> 0]]

pool_returns_after_first(tasks) == \E i \in 1..Len(tasks) : tasks[i].st = "done"

\* vec_io.py:75-76  list(pool.map(_write_shard, work)) inside the with block:
\* every task has returned
pool_joined(tasks) == \A i \in 1..Len(tasks) : tasks[i].st = "done"

---------------------------------------------------------------------------
(* StreamingVecWriter *)

append_loop_writes_twice(vectors, dim, tmp, count) ==
    [tmp   |-> tmp \o Concat([i \in 1..Len(vectors) |->
                                 struct_pack(vectors[i]) \o struct_pack(vectors[i])]),
     count |-> count + Len(vectors),
     error |-> "none"]

append_loop_packs_any_length(vectors, dim, tmp, count) ==
    [tmp   |-> tmp \o Concat([i \in 1..Len(vectors) |-> struct_pack(vectors[i])]),
     count |-> count + Len(vectors),
     error |-> "none"]

\* vec_io.py:105-107  for vec in vectors: write(pack(fmt, *vec)); _count += 1
\* struct.pack("<{dim}f", *vec) raises struct.error unless it is given exactly
\* dim values; the vectors before that one have been written and counted
RECURSIVE append_loop(_, _, _, _)
append_loop(vectors, dim, tmp, count) ==
    IF vectors = <<>> THEN [tmp |-> tmp, count |-> count, error |-> "none"]
    ELSE IF Len(Head(vectors)) # dim
    THEN [tmp |-> tmp, count |-> count, error |-> "struct.error"]
    ELSE append_loop(Tail(vectors), dim, tmp \o struct_pack(Head(vectors)), count + 1)

\* vec_io.py:102-109
append_batch(wr, dir, vectors) ==
    LET r == append_loop(vectors, wr.dim, dir[STREAM_TMP], wr.count)
    IN  [w     |-> [wr EXCEPT !.count = r.count],
         dir   |-> WriteFile(dir, STREAM_TMP, r.tmp),
         ret   |-> r.count,
         error |-> r.error]

\* vec_io.py:140-144  copy `remaining` bytes from src (at pos) in chunks; a read
\* that returns nothing leaves `remaining` unchanged: the loop never ends
RECURSIVE fin_copy_chunks(_, _, _, _)
fin_copy_chunks(src, pos, remaining, dst) ==
    IF remaining <= 0 THEN [dst |-> dst, pos |-> pos, hang |-> FALSE]
    ELSE LET chunk == ReadAt(src, pos, Min(remaining, COPY_CHUNK))
         IN  IF chunk = <<>> THEN [dst |-> dst, pos |-> pos, hang |-> TRUE]
             ELSE fin_copy_chunks(src, pos + Len(chunk), remaining - Len(chunk),
                                  dst \o chunk)

fin_copy_shards_rewinding(s, pos, src, sizes, vec_bytes, dir) ==
    [dir  |-> [f \in DOMAIN dir \cup {ShardName(i) : i \in 0..(Len(sizes) - 1)} |->
                 IF \E i \in 0..(Len(sizes) - 1) : f = ShardName(i)
                 THEN LET i == CHOOSE j \in 0..(Len(sizes) - 1) : f = ShardName(j)
                      IN  ReadAt(src, 0, sizes[i + 1] * vec_bytes)
                 ELSE dir[f]],
     hang |-> FALSE]

\* vec_io.py:134-148  one sequential pass over the temp file, shard by shard
RECURSIVE fin_copy_shards(_, _, _, _, _, _)
fin_copy_shards(s, pos, src, sizes, vec_bytes, dir) ==
    IF s >= Len(sizes) THEN [dir |-> dir, hang |-> FALSE]
    ELSE LET bytes_to_copy == sizes[s + 1] * vec_bytes
             c == fin_copy_chunks(src, pos, bytes_to_copy, <<>>)
         IN  IF c.hang THEN [dir |-> WriteFile(dir, ShardName(s), c.dst), hang |-> TRUE]
             ELSE fin_copy_shards(s + 1, c.pos, src, sizes, vec_bytes,
                                  WriteFile(dir, ShardName(s), c.dst))

\* vec_io.py:111-151
finalize(wr, dir) ==
    LET n == wr.count
        num_shards == wr.num_shards
        vec_bytes == wr.dim * 4
    IN  IF STREAM_TMP \notin DOMAIN dir
        THEN \* rename (line 123) or open (line 134) of a temp file that is gone
             [dir  |-> dir,
              ret  |-> [paths |-> <<>>, sizes |-> <<>>, offsets |-> <<>>],
              hang |-> FALSE, error |-> "FileNotFoundError"]
        ELSE IF num_shards <= 1
        THEN [dir  |-> Rename(dir, STREAM_TMP, DOCS_VEC),
              ret  |-> [paths |-> <<DOCS_VEC>>, sizes |-> <<n>>, offsets |-> <<0>>],
              hang |-> FALSE, error |-> "none"]
        ELSE LET p == fin_plan(n, num_shards)
                 c == fin_copy_shards(0, 0, dir[STREAM_TMP], p.sizes, vec_bytes, dir)
             IN  [dir  |-> IF c.hang THEN c.dir ELSE Unlink(c.dir, STREAM_TMP),
                  ret  |-> [paths   |-> [i \in 1..num_shards |-> ShardName(i - 1)],
                            sizes   |-> p.sizes,
                            offsets |-> p.offsets],
                  hang |-> c.hang, error |-> "none"]

---------------------------------------------------------------------------
(* Manifest *)

META == "meta.json"
QUERIES_VEC == "queries.vec"

\* generate_embeddings.py:170  output.num_query_vectors, default 5000
NUM_QUERIES == 5000

\* A manifest file: the JSON object and whether a newline follows it
\* (write_manifest writes none, dedup writes one).
ManifestFile(json, nl) == [json |-> json, nl |-> nl]

\* vec_io.py:158-163
write_manifest(ms, path, data) ==
    [f \in DOMAIN ms \cup {path} |-> IF f = path THEN ManifestFile(data, FALSE) ELSE ms[f]]

\* vec_io.py:162 and dedup_vecs.py:161  open(path, "w") truncates the file:
\* until the writer closes it the path names a file with no content
TruncatedFile == [truncated |-> TRUE]

\* dict with key k set to v (a new key is added)
SetKey(d, k, v) == [x \in DOMAIN d \cup {k} |-> IF x = k THEN v ELSE d[x]]

---------------------------------------------------------------------------
(* dedup_vecs.py *)

DEDUP_TMP == "_dedup_tmp.vec"
BACKUP_SUFFIX == ".pre-dedup"

\* dedup_vecs.py:119  p.with_suffix(p.suffix + ".pre-dedup"), and :122 for meta.json
BackupOf(p) == p \o BACKUP_SUFFIX

\* dedup_vecs.py:24-32
shard_paths(fs, num_shards) ==
    IF num_shards <= 1
    THEN IF DOCS_VEC \in DOMAIN fs THEN <<DOCS_VEC>> ELSE <<ShardName(0)>>
    ELSE [i \in 1..num_shards |-> ShardName(i - 1)]

\* hashlib.md5(raw).digest(): taken to be collision-free on the records modelled,
\* so two records have the same digest exactly when they are the same bytes.
md5(raw) == <<"md5", raw>>

\* dedup_vecs.py:57-59 and 90; hang: the read loop that is running cannot end
ScanInit ==
    [seen |-> {}, total |-> 0, dupes |-> 0, unique_count |-> 0, out |-> <<>>,
     hang |-> FALSE]

\* dedup_vecs.py:78-83
dry_record(st, raw) ==
    LET h == md5(raw)
    IN  IF h \in st.seen
        THEN [st EXCEPT !.total = @ + 1, !.dupes = @ + 1]
        ELSE [st EXCEPT !.total = @ + 1, !.seen = @ \cup {h}]

\* dedup_vecs.py:73-83  read records until a short read. With vec_bytes <= 0
\* no read is short (len(raw) >= 0 >= vec_bytes): line 76 never breaks.
RECURSIVE dry_file(_, _, _, _)
dry_file(bytes, pos, vec_bytes, st) ==
    IF vec_bytes <= 0 THEN [st EXCEPT !.hang = TRUE]
    ELSE LET raw == ReadAt(bytes, pos, vec_bytes)
         IN  IF Len(raw) < vec_bytes THEN st
             ELSE dry_file(bytes, pos + vec_bytes, vec_bytes, dry_record(st, raw))

\* dedup_vecs.py:72  for p in paths
RECURSIVE dry_paths(_, _, _, _)
dry_paths(paths, fs, vec_bytes, st) ==
    IF paths = <<>> \/ st.hang THEN st
    ELSE dry_paths(Tail(paths), fs, vec_bytes, dry_file(fs[Head(paths)], 0, vec_bytes, st))

real_record_writes_all(st, raw) ==
    LET h == md5(raw)
    IN  IF h \notin st.seen
        THEN [st EXCEPT !.total = @ + 1, !.seen = @ \cup {h}, !.out = @ \o raw,
                        !.unique_count = @ + 1]
        ELSE [st EXCEPT !.total = @ + 1, !.dupes = @ + 1, !.out = @ \o raw]

\* dedup_vecs.py:98-105
real_record(st, raw) ==
    LET h == md5(raw)
    IN  IF h \notin st.seen
        THEN [st EXCEPT !.total = @ + 1, !.seen = @ \cup {h}, !.out = @ \o raw,
                        !.unique_count = @ + 1]
        ELSE [st EXCEPT !.total = @ + 1, !.dupes = @ + 1]

\* dedup_vecs.py:93-105  as dry_file: with vec_bytes <= 0 line 96 never breaks.
\* read(0) returns nothing; read of a negative size returns the rest of the
\* file, which the first round writes out as one record.
RECURSIVE real_file(_, _, _, _)
real_file(bytes, pos, vec_bytes, st) ==
    IF vec_bytes <= 0
    THEN [st EXCEPT !.hang = TRUE, !.out = IF vec_bytes < 0 THEN @ \o bytes ELSE @]
    ELSE LET raw == ReadAt(bytes, pos, vec_bytes)
         IN  IF Len(raw) < vec_bytes THEN st
             ELSE real_file(bytes, pos + vec_bytes, vec_bytes, real_record(st, raw))

\* dedup_vecs.py:92  for p in paths
RECURSIVE real_paths(_, _, _, _)
real_paths(paths, fs, vec_bytes, st) ==
    IF paths = <<>> \/ st.hang THEN st
    ELSE real_paths(Tail(paths), fs, vec_bytes,
                    real_file(fs[Head(paths)], 0, vec_bytes, st))

noop_keeps_tmp(fs) == fs

\* dedup_vecs.py:110-113  nothing to do: delete the temp file
dedup_noop(fs) == Unlink(fs, DEDUP_TMP)

backup_file_overwrites(dir, p) == WriteFile(dir, BackupOf(p), dir[p])

\* dedup_vecs.py:119-121 and 122-124  copy unless the backup exists
backup_file(dir, p) ==
    IF BackupOf(p) \in DOMAIN dir THEN dir ELSE WriteFile(dir, BackupOf(p), dir[p])

\* dedup_vecs.py:118-121  for p in paths
RECURSIVE backup_paths(_, _)
backup_paths(fs, paths) ==
    IF paths = <<>> THEN fs ELSE backup_paths(backup_file(fs, Head(paths)), Tail(paths))

dedup_backup_shards_only(fs, ms, paths) ==
    [files |-> backup_paths(fs, paths), manifests |-> ms]

\* dedup_vecs.py:116-124
dedup_backup(fs, ms, paths) ==
    [files |-> backup_paths(fs, paths), manifests |-> backup_file(ms, META)]

\* dedup_vecs.py:145-152  as fin_copy_chunks, but an empty read ends the copy
RECURSIVE dedup_copy_chunks(_, _, _, _)
dedup_copy_chunks(src, pos, remaining, dst) ==
    IF remaining <= 0 THEN [dst |-> dst, pos |-> pos]
    ELSE LET chunk == ReadAt(src, pos, Min(remaining, COPY_CHUNK))
         IN  IF chunk = <<>> THEN [dst |-> dst, pos |-> pos]
             ELSE dedup_copy_chunks(src, pos + Len(chunk), remaining - Len(chunk),
                                    dst \o chunk)

reshard_file_always_docs_vec(s, num_shards) == DOCS_VEC

\* dedup_vecs.py:142
reshard_file(s, num_shards) == IF num_shards > 1 THEN ShardName(s) ELSE DOCS_VEC

\* dedup_vecs.py:135-152  one sequential pass over the temp file
RECURSIVE reshard_copy(_, _, _, _, _, _, _)
reshard_copy(s, pos, src, sizes, num_shards, vec_bytes, fs) ==
    IF s >= Len(sizes) THEN fs
    ELSE LET c == dedup_copy_chunks(src, pos, sizes[s + 1] * vec_bytes, <<>>)
         IN  reshard_copy(s + 1, c.pos, src, sizes, num_shards, vec_bytes,
                          WriteFile(fs, reshard_file(s, num_shards), c.dst))

\* dedup_vecs.py:127-154
dedup_reshard(fs, unique_count, num_shards, vec_bytes) ==
    LET p == reshard_plan(unique_count, num_shards)
        copied == reshard_copy(0, 0, fs[DEDUP_TMP], p.sizes, num_shards, vec_bytes, fs)
    IN  [files |-> Unlink(copied, DEDUP_TMP), sizes |-> p.sizes, offsets |-> p.offsets]

update_meta_offsets_from_sizes(ms, unique_count, sizes, offsets) ==
    LET meta == SetKey(SetKey(SetKey(ms[META].json, "num_docs", unique_count),
                              "shard_sizes", sizes), "shard_doc_offsets", sizes)
    IN  [ms EXCEPT ![META] = ManifestFile(meta, TRUE)]

update_meta_refreshes_created_at(ms, unique_count, sizes, offsets) ==
    LET meta == SetKey(SetKey(SetKey(SetKey(ms[META].json, "num_docs", unique_count),
                                     "shard_sizes", sizes), "shard_doc_offsets", offsets),
                       "created_at", "2026-01-02T00:00:00Z")
    IN  [ms EXCEPT ![META] = ManifestFile(meta, TRUE)]

\* dedup_vecs.py:157-163
dedup_update_meta(ms, unique_count, sizes, offsets) ==
    LET meta == SetKey(SetKey(SetKey(ms[META].json, "num_docs", unique_count),
                              "shard_sizes", sizes), "shard_doc_offsets", offsets)
    IN  [ms EXCEPT ![META] = ManifestFile(meta, TRUE)]

Report(exit, total, dupes, unique) ==
    [exit |-> exit, total |-> total, dupes |-> dupes, unique |-> unique]

dedup_dry_run_leaves_tmp(fs, ms, paths, vec_bytes) ==
    LET st == dry_paths(paths, fs, vec_bytes, ScanInit)
    IN  [files |-> WriteFile(fs, DEDUP_TMP, <<>>), manifests |-> ms,
         report |-> Report("ok", st.total, st.dupes, st.total - st.dupes)]

\* dedup_vecs.py:71-87
dedup_dry_run(fs, ms, paths, vec_bytes) ==
    LET st == dry_paths(paths, fs, vec_bytes, ScanInit)
    IN  [files |-> fs, manifests |-> ms,
         report |-> Report(IF st.hang THEN "hang" ELSE "ok",
                           st.total, st.dupes, st.total - st.dupes)]

\* dedup_vecs.py:89-165
dedup_apply(fs, ms, paths, num_shards, vec_bytes, no_backup) ==
    LET opened == WriteFile(fs, DEDUP_TMP, <<>>)
        st     == real_paths(paths, opened, vec_bytes, ScanInit)
        fs1    == WriteFile(opened, DEDUP_TMP, st.out)
        rep(e) == Report(e, st.total, st.dupes, st.unique_count)
    IN  IF st.hang
        THEN [files |-> fs1, manifests |-> ms, report |-> rep("hang")]
        ELSE IF st.dupes = 0
        THEN [files |-> dedup_noop(fs1), manifests |-> ms, report |-> rep("ok")]
        ELSE LET b == IF no_backup THEN [files |-> fs1, manifests |-> ms]
                      ELSE dedup_backup(fs1, ms, paths)
             IN  IF num_shards = 0
                 THEN [files |-> b.files, manifests |-> b.manifests,
                       report |-> rep("ZeroDivisionError")]
                 ELSE LET r == dedup_reshard(b.files, st.unique_count, num_shards,
                                             vec_bytes)
                      IN  [files |-> r.files,
                           manifests |-> dedup_update_meta(b.manifests, st.unique_count,
                                                           r.sizes, r.offsets),
                           report |-> rep("ok")]

dedup_fail_leaves_tmp(fs, ms) ==
    [files |-> WriteFile(fs, DEDUP_TMP, <<>>), manifests |-> ms,
     report |-> Report("exit1", 0, 0, 0)]

\* dedup_vecs.py:38-40 and 52-54  print the error and sys.exit(1)
dedup_fail(fs, ms) ==
    [files |-> fs, manifests |-> ms, report |-> Report("exit1", 0, 0, 0)]

\* dedup_vecs.py:35-165
dedup(fs, ms, dry_run, no_backup) ==
    IF META \notin DOMAIN ms
    THEN dedup_fail(fs, ms)
    ELSE LET meta       == ms[META].json
             dim        == meta.dim
             num_shards == IF "num_shards" \in DOMAIN meta THEN meta.num_shards ELSE 1
             vec_bytes  == dim * 4
             paths      == shard_paths(fs, num_shards)
         IN  IF \E i \in 1..Len(paths) : paths[i] \notin DOMAIN fs
             THEN dedup_fail(fs, ms)
             ELSE IF dry_run THEN dedup_dry_run(fs, ms, paths, vec_bytes)
             ELSE dedup_apply(fs, ms, paths, num_shards, vec_bytes, no_backup)

---------------------------------------------------------------------------
(* generate_embeddings.py: one generator run into a named dataset directory *)

\* generate_embeddings.py:261-278
gen_manifest(dim, num_shards, vectors_written, nq, ret) ==
    LET base == [source             |-> "wikipedia",
                 source_path        |-> "simplewiki.jsonl",
                 granularity        |-> "sentence",
                 model_name         |-> "bge_m3",
                 dim                |-> dim,
                 num_docs           |-> vectors_written,
                 num_query_vectors  |-> nq,
                 output_docs_vec    |-> IF num_shards <= 1 THEN DOCS_VEC
                                        ELSE "docs-shard-{i}.vec",
                 output_queries_vec |-> QUERIES_VEC,
                 created_at         |-> "2026-01-01T00:00:00Z",
                 dataset_name       |-> "unit-data"]
    IN  IF num_shards > 1
        THEN SetKey(SetKey(SetKey(base, "num_shards", num_shards),
                           "shard_sizes", ret.sizes), "shard_doc_offsets", ret.offsets)
        ELSE base

\* generate_embeddings.py:209-279 with output.name set: the writer is created,
\* fed every batch and finalized, queries.vec and meta.json are written
generate(fs, ms, dim, num_shards, vectors) ==
    LET wr  == [dim |-> dim, num_shards |-> num_shards, count |-> 0, closed |-> FALSE]
        a   == append_batch(wr, WriteFile(fs, STREAM_TMP, <<>>), vectors)
        f   == finalize(a.w, a.dir)
        qv  == SubSeq(vectors, 1, Min(NUM_QUERIES, Len(vectors)))
        q   == write_vec_file(f.dir, QUERIES_VEC, qv, dim)
    IN  [files     |-> q.dir,
         manifests |-> write_manifest(ms, META,
                           gen_manifest(dim, num_shards, a.ret, Len(qv), f.ret))]

\* A dataset written through vec_io by a caller that records the shard count
\* it used: the shard set by a StreamingVecWriter, or by write_vec_shards when
\* the vectors are held in memory, and the manifest by write_manifest.
publish(fs, ms, dim, num_shards, vectors, in_memory) ==
    LET wr == [dim |-> dim, num_shards |-> num_shards, count |-> 0, closed |-> FALSE]
        a  == append_batch(wr, WriteFile(fs, STREAM_TMP, <<>>), vectors)
        f  == finalize(a.w, a.dir)
        m  == write_vec_shards(fs, vectors, dim, num_shards)
    IN  [files     |-> IF in_memory THEN m.dir ELSE f.dir,
         manifests |-> write_manifest(ms, META,
                           [dim |-> dim, num_docs |-> Len(vectors),
                            num_shards |-> num_shards])]

---------------------------------------------------------------------------
(* Idle values of the variables a specification does not use *)

EmptyDir == [f \in {} |-> <<>>]
NoRet == [paths |-> <<>>, sizes |-> <<>>, offsets |-> <<>>, tmp |-> <<>>, done |-> FALSE]
NoReport == Report("none", 0, 0, 0)
NoRun == [op |-> "none", no_backup |-> FALSE, report |-> NoReport, again |-> FALSE]
NoSnapshot == [files |-> EmptyDir, manifests |-> EmptyDir]

NoCall == [op |-> "none", error |-> "none"]

\* model.py:17-18
None == 0

HandlerIdle == model = None /\ tokenizer = None /\ req = <<>> /\ calls = 0

AuxIdle ==
    /\ raised = NoCall
    /\ pool = <<>>
    /\ mw = [pc |-> "idle"]
    /\ proc = [pc |-> "idle"]
    /\ HandlerIdle

WriterIdle ==
    /\ w = [dim |-> 1, num_shards |-> 1, count |-> 0, closed |-> TRUE]
    /\ V = <<>>
    /\ sdir = EmptyDir
    /\ sret = NoRet
    /\ mdir = EmptyDir
    /\ mret = NoRet

DedupIdle ==
    /\ files = EmptyDir
    /\ manifests = EmptyDir
    /\ last = NoRun
    /\ before = NoSnapshot
    /\ gens = 0

---------------------------------------------------------------------------
(* SpecPlan *)

InitPlan == PlanInit /\ WriterIdle /\ DedupIdle /\ AuxIdle

NextPlan ==
    \/ PlanWriteVecShards /\ UNCHANGED <<writerVars, dedupVars, auxVars>>
    \/ PlanFinalize /\ UNCHANGED <<writerVars, dedupVars, auxVars>>
    \/ PlanReshard /\ UNCHANGED <<writerVars, dedupVars, auxVars>>

SpecPlan == InitPlan /\ [][NextPlan]_vars

---------------------------------------------------------------------------
(* SpecWriter: one StreamingVecWriter, then write_vec_shards on the same vectors *)

AllVectors == Concat(V)

InitWriter ==
    /\ plan = PlanIdle
    /\ DedupIdle
    /\ w \in {[dim |-> d, num_shards |-> k, count |-> 0, closed |-> FALSE] :
                d \in Dims, k \in 1..MaxShards}
    /\ V = <<>>
    /\ sdir = (STREAM_TMP :> <<>>)
    /\ sret = NoRet
    /\ mdir = EmptyDir
    /\ mret = NoRet
    /\ AuxIdle

AppendBatch ==
    /\ ~w.closed
    /\ Len(V) < MaxCalls
    /\ \E batch \in SeqsUpTo(Vectors(w.dim), MaxBatch) :
          /\ Len(AllVectors) + Len(batch) <= MaxVecs
          /\ LET r == append_batch(w, sdir, batch)
             IN  /\ w' = r.w
                 /\ sdir' = r.dir
                 /\ V' = Append(V, batch)
    /\ UNCHANGED <<sret, mdir, mret>>

Finalize ==
    /\ ~w.closed
    /\ LET r == finalize(w, sdir)
       IN  /\ ~r.hang
           /\ w' = [w EXCEPT !.closed = TRUE]
           /\ sdir' = r.dir
           /\ sret' = [paths |-> r.ret.paths, sizes |-> r.ret.sizes,
                       offsets |-> r.ret.offsets, tmp |-> sdir[STREAM_TMP],
                       done |-> TRUE]
    /\ UNCHANGED <<V, mdir, mret>>

WriteVecShards ==
    /\ sret.done
    /\ ~mret.done
    /\ LET r == write_vec_shards(mdir, AllVectors, w.dim, w.num_shards)
       IN  /\ mdir' = r.dir
           /\ mret' = [paths |-> r.ret.paths, sizes |-> r.ret.sizes,
                       offsets |-> r.ret.offsets, tmp |-> <<>>, done |-> TRUE]
    /\ UNCHANGED <<w, V, sdir, sret>>

NextWriter ==
    \/ AppendBatch /\ UNCHANGED <<planVars, dedupVars, auxVars>>
    \/ Finalize /\ UNCHANGED <<planVars, dedupVars, auxVars>>
    \/ WriteVecShards /\ UNCHANGED <<planVars, dedupVars, auxVars>>

SpecWriter == InitWriter /\ [][NextWriter]_vars

---------------------------------------------------------------------------
(* SpecDedup: generator runs and dedup runs on one dataset directory *)

InitDedup ==
    /\ plan = PlanIdle
    /\ WriterIdle
    /\ DedupIdle
    /\ AuxIdle

\* One generator run into the dataset directory.
GenerateRun(dims, shard_counts, max_vecs) ==
    /\ \E dim \in dims, num_shards \in shard_counts :
          \E vectors \in SeqsUpTo(Vectors(dim), max_vecs) :
             LET r == generate(files, manifests, dim, num_shards, vectors)
             IN  /\ files' = r.files
                 /\ manifests' = r.manifests
    /\ last' = [NoRun EXCEPT !.op = "generate"]
    /\ before' = NoSnapshot
    /\ gens' = gens + 1

\* The dataset directory is created by one generator run.
Generate ==
    /\ META \notin DOMAIN manifests
    /\ GenerateRun(Dims, 1..MaxShards, MaxVecs)

DedupRun(dry_run, no_backup) ==
    LET r == dedup(files, manifests, dry_run, no_backup)
    IN  /\ files' = r.files
        /\ manifests' = r.manifests
        /\ last' = [op |-> IF dry_run THEN "dry" ELSE "apply",
                    no_backup |-> ~dry_run /\ no_backup,
                    report |-> r.report,
                    again |-> ~dry_run /\ last.op = "apply" /\ last.report.exit = "ok"]
        /\ before' = [files |-> files, manifests |-> manifests]
        /\ UNCHANGED gens

DedupDryRun == \E no_backup \in BOOLEAN : DedupRun(TRUE, no_backup)

DedupApply == \E no_backup \in BOOLEAN : DedupRun(FALSE, no_backup)

NextDedup ==
    \/ Generate /\ UNCHANGED <<planVars, writerVars, auxVars>>
    \/ DedupDryRun /\ UNCHANGED <<planVars, writerVars, auxVars>>
    \/ DedupApply /\ UNCHANGED <<planVars, writerVars, auxVars>>

SpecDedup == InitDedup /\ [][NextDedup]_vars

---------------------------------------------------------------------------
(* SpecRegen: as SpecDedup, and the generator may be run again into a       *)
(* directory that earlier runs have left their files in                    *)

Regenerate ==
    /\ gens < MaxGens
    /\ GenerateRun(RegenDims, RegenShards, RegenVecs)

NextRegen ==
    \/ Regenerate /\ UNCHANGED <<planVars, writerVars, auxVars>>
    \/ DedupApply /\ UNCHANGED <<planVars, writerVars, auxVars>>

SpecRegen == InitDedup /\ [][NextRegen]_vars

---------------------------------------------------------------------------
(* SpecConfig: dedup runs on dataset directories of every configuration:    *)
(* written by the generator or by another caller of vec_io, with shard      *)
(* count 0, dimension 0, or a file removed since it was written             *)

GenerateAny ==
    /\ META \notin DOMAIN manifests
    /\ last.op = "none"
    /\ GenerateRun(CfgDims, 0..CfgShards, CfgVecs)

Publish ==
    /\ META \notin DOMAIN manifests
    /\ last.op = "none"
    /\ \E dim \in CfgDims, num_shards \in 0..CfgShards, in_memory \in BOOLEAN :
          \* write_vec_shards divides by num_shards before it writes anything
          /\ in_memory => num_shards >= 1
          /\ \E vectors \in SeqsUpTo(Vectors(dim), CfgVecs) :
                LET r == publish(files, manifests, dim, num_shards, vectors, in_memory)
                IN  /\ files' = r.files
                    /\ manifests' = r.manifests
    /\ last' = [NoRun EXCEPT !.op = "generate"]
    /\ before' = NoSnapshot
    /\ gens' = gens + 1

\* A shard file or the manifest is removed from the directory after it was
\* written and before the dedup tool is run on it.
RemoveFile ==
    /\ last.op = "generate"
    /\ \/ /\ \E p \in DOMAIN files \ {QUERIES_VEC} : files' = Unlink(files, p)
          /\ UNCHANGED manifests
       \/ /\ manifests' = Unlink(manifests, META)
          /\ UNCHANGED files
    /\ last' = [NoRun EXCEPT !.op = "removed"]
    /\ UNCHANGED <<before, gens>>

NextConfig ==
    \/ GenerateAny /\ UNCHANGED <<planVars, writerVars, auxVars>>
    \/ Publish /\ UNCHANGED <<planVars, writerVars, auxVars>>
    \/ RemoveFile /\ UNCHANGED <<planVars, writerVars, auxVars>>
    \/ DedupDryRun /\ UNCHANGED <<planVars, writerVars, auxVars>>
    \/ DedupApply /\ UNCHANGED <<planVars, writerVars, auxVars>>

SpecConfig == InitDedup /\ [][NextConfig]_vars

---------------------------------------------------------------------------
(* SpecPool: one write_vec_shards call, its _write_shard tasks running in   *)
(* any order and interleaved in any way                                     *)

InitPool ==
    /\ plan = PlanIdle
    /\ DedupIdle
    /\ \E dim \in RegenDims, k \in 1..MaxShards :
          \E vectors \in SeqsUpTo(Vectors(dim), MaxVecs) :
             /\ w = [dim |-> dim, num_shards |-> k, count |-> 0, closed |-> TRUE]
             /\ V = <<vectors>>
             /\ pool = pool_submit(vectors, dim, k)
    /\ sdir = EmptyDir
    /\ sret = NoRet
    /\ mdir = EmptyDir
    /\ mret = NoRet
    /\ raised = NoCall
    /\ mw = [pc |-> "idle"]
    /\ proc = [pc |-> "idle"]
    /\ HandlerIdle

\* vec_io.py:16  a task opens its shard file for writing
TaskOpen(i) ==
    /\ pool[i].st = "queued"
    /\ mdir' = WriteFile(mdir, pool[i].path, <<>>)
    /\ pool' = [pool EXCEPT ![i].st = "running"]
    /\ UNCHANGED mret

\* vec_io.py:17-20  a task writes the next vector of its slice
TaskWrite(i) ==
    /\ pool[i].st = "running"
    /\ pool[i].written < Len(pool[i].vectors)
    /\ LET vec == pool[i].vectors[pool[i].written + 1]
       IN  /\ Len(vec) = w.dim
           /\ mdir' = WriteFile(mdir, pool[i].path, mdir[pool[i].path] \o struct_pack(vec))
    /\ pool' = [pool EXCEPT ![i].written = @ + 1]
    /\ UNCHANGED mret

\* vec_io.py:16-21 and 42  the file is closed and the task returns
TaskClose(i) ==
    /\ pool[i].st = "running"
    /\ pool[i].written = Len(pool[i].vectors)
    /\ pool' = [pool EXCEPT ![i].st = "done"]
    /\ UNCHANGED <<mdir, mret>>

\* vec_io.py:75-78  write_vec_shards returns
PoolReturn ==
    /\ ~mret.done
    /\ pool_joined(pool)
    /\ mret' = [paths   |-> [i \in 1..Len(pool) |-> pool[i].path],
                sizes   |-> [i \in 1..Len(pool) |-> pool[i].end - pool[i].begin],
                offsets |-> [i \in 1..Len(pool) |-> pool[i].begin],
                tmp     |-> <<>>,
                done    |-> TRUE]
    /\ UNCHANGED <<mdir, pool>>

NextPool ==
    \/ (\E i \in 1..Len(pool) : TaskOpen(i))
          /\ UNCHANGED <<planVars, dedupVars, w, V, sdir, sret, raised, mw, proc, handlerVars>>
    \/ (\E i \in 1..Len(pool) : TaskWrite(i))
          /\ UNCHANGED <<planVars, dedupVars, w, V, sdir, sret, raised, mw, proc, handlerVars>>
    \/ (\E i \in 1..Len(pool) : TaskClose(i))
          /\ UNCHANGED <<planVars, dedupVars, w, V, sdir, sret, raised, mw, proc, handlerVars>>
    \/ PoolReturn
          /\ UNCHANGED <<planVars, dedupVars, w, V, sdir, sret, raised, mw, proc, handlerVars>>

SpecPool == InitPool /\ [][NextPool]_vars

---------------------------------------------------------------------------
(* SpecHandler: bge-m3-model/model.py.  Several handle calls run in one     *)
(* process; each is followed statement by statement.  A loaded model or     *)
(* tokenizer is named by the number of the get_model call that created it.  *)

Requests == 1..MaxRequests

\* a handle call that has not reached line 45 yet
NewRequest == [pc |-> "check", mdl |-> None, tok |-> None,
               used_model |-> None, used_tokenizer |-> None]

InitHandler ==
    /\ plan = PlanIdle
    /\ WriterIdle
    /\ DedupIdle
    /\ raised = NoCall
    /\ pool = <<>>
    /\ mw = [pc |-> "idle"]
    /\ proc = [pc |-> "idle"]
    /\ model = None
    /\ tokenizer = None
    /\ req = [r \in Requests |-> NewRequest]
    /\ calls = 0

\* model.py:45  if not model
CheckModel(r) ==
    /\ req[r].pc = "check"
    /\ req' = [req EXCEPT ![r].pc = IF model = None THEN "get_model" ELSE "use"]
    /\ UNCHANGED <<model, tokenizer, calls>>

\* model.py:21-31  get_model loads a new model and a new tokenizer and
\* returns the pair
get_model(r) ==
    /\ req[r].pc = "get_model"
    /\ calls' = calls + 1
    /\ req' = [req EXCEPT ![r].pc = "store_model",
                          ![r].mdl = calls + 1, ![r].tok = calls + 1]
    /\ UNCHANGED <<model, tokenizer>>

\* model.py:46  model, tokenizer = ...: the global model is stored first
StoreModel(r) ==
    /\ req[r].pc = "store_model"
    /\ model' = req[r].mdl
    /\ req' = [req EXCEPT ![r].pc = "store_tokenizer"]
    /\ UNCHANGED <<tokenizer, calls>>

\* model.py:46  then the global tokenizer
StoreTokenizer(r) ==
    /\ req[r].pc = "store_tokenizer"
    /\ tokenizer' = req[r].tok
    /\ req' = [req EXCEPT ![r].pc = "use"]
    /\ UNCHANGED <<model, calls>>

\* model.py:64-78  the request is answered with the globals as they are now
UseModel(r) ==
    /\ req[r].pc = "use"
    /\ req' = [req EXCEPT ![r].pc = "done", ![r].used_model = model,
                          ![r].used_tokenizer = tokenizer]
    /\ UNCHANGED <<model, tokenizer, calls>>

NextHandler ==
    \/ (\E r \in Requests : CheckModel(r))
          /\ UNCHANGED <<planVars, writerVars, dedupVars, raised, pool, mw, proc>>
    \/ (\E r \in Requests : get_model(r))
          /\ UNCHANGED <<planVars, writerVars, dedupVars, raised, pool, mw, proc>>
    \/ (\E r \in Requests : StoreModel(r))
          /\ UNCHANGED <<planVars, writerVars, dedupVars, raised, pool, mw, proc>>
    \/ (\E r \in Requests : StoreTokenizer(r))
          /\ UNCHANGED <<planVars, writerVars, dedupVars, raised, pool, mw, proc>>
    \/ (\E r \in Requests : UseModel(r))
          /\ UNCHANGED <<planVars, writerVars, dedupVars, raised, pool, mw, proc>>

SpecHandler == InitHandler /\ [][NextHandler]_vars

---------------------------------------------------------------------------
(* SpecOutput: one generator run into an empty output directory, in either  *)
(* output mode.  Paths are written relative to output_dir: the manifest      *)
(* records str(output_dir / name), the model records name.                   *)

\* generate_embeddings.py:180-185  output_stem unset: source, granularity,
\* model name and dimension
default_stem(dim) == "simplewiki-sentence-bge_m3-" \o ToString(dim) \o "d"

\* generate_embeddings.py:173-190
output_paths(named, dim) ==
    IF named
    THEN [docs_vec_path |-> DOCS_VEC, queries_vec_path |-> QUERIES_VEC,
          meta_path |-> META]
    ELSE [docs_vec_path    |-> default_stem(dim) \o "-docs.vec",
          queries_vec_path |-> default_stem(dim) \o "-queries.vec",
          meta_path        |-> default_stem(dim) \o "-meta.json"]

\* generate_embeddings.py:261-278
main_manifest(named, dim, num_shards, vectors_written, nq, ret) ==
    LET p    == output_paths(named, dim)
        base == [source             |-> "wikipedia",
                 source_path        |-> "simplewiki.jsonl",
                 granularity        |-> "sentence",
                 model_name         |-> "bge_m3",
                 dim                |-> dim,
                 num_docs           |-> vectors_written,
                 num_query_vectors  |-> nq,
                 output_docs_vec    |-> IF num_shards <= 1 THEN p.docs_vec_path
                                        ELSE "docs-shard-{i}.vec",
                 output_queries_vec |-> p.queries_vec_path,
                 created_at         |-> "2026-01-01T00:00:00Z"]
        sharded == IF num_shards > 1
                   THEN SetKey(SetKey(SetKey(base, "num_shards", num_shards),
                                      "shard_sizes", ret.sizes),
                               "shard_doc_offsets", ret.offsets)
                   ELSE base
    IN  IF named THEN SetKey(sharded, "dataset_name", "unit-data") ELSE sharded

\* generate_embeddings.py:173-279  the writer is given output_dir only
\* (line 209); queries and manifest go to the paths of lines 173-190
main(fs, ms, named, dim, num_shards, vectors) ==
    LET p   == output_paths(named, dim)
        wr  == [dim |-> dim, num_shards |-> num_shards, count |-> 0, closed |-> FALSE]
        a   == append_batch(wr, WriteFile(fs, STREAM_TMP, <<>>), vectors)
        f   == finalize(a.w, a.dir)
        qv  == SubSeq(vectors, 1, Min(NUM_QUERIES, Len(vectors)))
        q   == write_vec_file(f.dir, p.queries_vec_path, qv, dim)
    IN  [files     |-> q.dir,
         manifests |-> write_manifest(ms, p.meta_path,
                           main_manifest(named, dim, num_shards, a.ret, Len(qv), f.ret))]

InitOutput ==
    /\ plan = PlanIdle
    /\ WriterIdle
    /\ files = EmptyDir
    /\ manifests = EmptyDir
    /\ last = NoRun
    /\ before = NoSnapshot
    /\ gens = 0
    /\ AuxIdle

\* generate_embeddings.py:156-158  a run with no chunks stops before writing
MainRun(named) ==
    /\ gens = 0
    /\ \E dim \in Dims, num_shards \in 0..MaxShards :
          \E vectors \in SeqsUpTo(Vectors(dim), MaxVecs) :
             /\ vectors # <<>>
             /\ LET r == main(files, manifests, named, dim, num_shards, vectors)
                IN  /\ files' = r.files
                    /\ manifests' = r.manifests
    /\ last' = [NoRun EXCEPT !.op = "generate"]
    /\ gens' = gens + 1
    /\ UNCHANGED before

\* output.name set
MainNamed == MainRun(TRUE)

\* output.name unset
MainStem == MainRun(FALSE)

NextOutput ==
    \/ MainNamed /\ UNCHANGED <<planVars, writerVars, auxVars>>
    \/ MainStem /\ UNCHANGED <<planVars, writerVars, auxVars>>

SpecOutput == InitOutput /\ [][NextOutput]_vars

---------------------------------------------------------------------------
(* SpecManifest: the manifest of a dataset is overwritten, by the generator *)
(* run again or by dedup apply, while a reader may read the manifest path   *)

NotRead == [read |-> FALSE]

InitManifest ==
    /\ plan = PlanIdle
    /\ WriterIdle
    /\ \E dim \in RegenDims, num_shards \in RegenShards :
          \E vectors \in SeqsUpTo(Vectors(dim), RegenVecs) :
             LET r == generate(EmptyDir, EmptyDir, dim, num_shards, vectors)
             IN  /\ files = r.files
                 /\ manifests = r.manifests
                 /\ mw = [pc |-> "ready", old |-> r.manifests[META],
                          new |-> r.manifests[META], seen |-> NotRead]
    /\ last = NoRun
    /\ before = NoSnapshot
    /\ gens = 1
    /\ raised = NoCall
    /\ pool = <<>>
    /\ proc = [pc |-> "idle"]
    /\ HandlerIdle

\* generate_embeddings.py:209-279 up to vec_io.py:162: the generator has
\* written the vec files and write_manifest has opened meta.json for writing
BeginWriteManifest ==
    /\ mw.pc = "ready"
    /\ \E dim \in RegenDims, num_shards \in RegenShards :
          \E vectors \in SeqsUpTo(Vectors(dim), RegenVecs) :
             LET r == generate(files, manifests, dim, num_shards, vectors)
             IN  /\ files' = r.files
                 /\ manifests' = [r.manifests EXCEPT ![META] = TruncatedFile]
                 /\ mw' = [mw EXCEPT !.pc = "open", !.new = r.manifests[META]]

\* dedup_vecs.py:89-161: an apply run has found duplicates, rewritten the
\* shards and opened meta.json for writing
BeginUpdateMeta ==
    /\ mw.pc = "ready"
    /\ LET r == dedup(files, manifests, FALSE, FALSE)
       IN  /\ r.report.exit = "ok"
           /\ r.report.dupes > 0
           /\ files' = r.files
           /\ manifests' = [r.manifests EXCEPT ![META] = TruncatedFile]
           /\ mw' = [mw EXCEPT !.pc = "open", !.new = r.manifests[META]]

\* vec_io.py:163 / dedup_vecs.py:162-163: the text is written and, leaving the
\* with block, the file is closed
EndWrite ==
    /\ mw.pc = "open"
    /\ manifests' = [manifests EXCEPT ![META] = mw.new]
    /\ mw' = [mw EXCEPT !.pc = "closed"]
    /\ UNCHANGED files

\* Another process reads the manifest path (dedup_vecs.py:42-43 does).
ReadManifest ==
    /\ mw.seen = NotRead
    /\ mw' = [mw EXCEPT !.seen = manifests[META]]
    /\ UNCHANGED <<files, manifests>>

NextManifest ==
    \/ BeginWriteManifest
          /\ UNCHANGED <<planVars, writerVars, last, before, gens, raised, pool, proc, handlerVars>>
    \/ BeginUpdateMeta
          /\ UNCHANGED <<planVars, writerVars, last, before, gens, raised, pool, proc, handlerVars>>
    \/ EndWrite
          /\ UNCHANGED <<planVars, writerVars, last, before, gens, raised, pool, proc, handlerVars>>
    \/ ReadManifest
          /\ UNCHANGED <<planVars, writerVars, last, before, gens, raised, pool, proc, handlerVars>>

SpecManifest == InitManifest /\ [][NextManifest]_vars

---------------------------------------------------------------------------
(* SpecCrash: dedup apply with backups, one statement group at a time; the  *)
(* process may be killed between any two of them and the command run again. *)
(* `before` holds the dataset as the generator wrote it.                     *)

NoProcess ==
    [pc |-> "idle", i |-> 0, paths |-> <<>>, num_shards |-> 0, vec_bytes |-> 0,
     unique_count |-> 0, dupes |-> 0, meta |-> <<>>]

InitCrash ==
    /\ plan = PlanIdle
    /\ WriterIdle
    /\ \E dim \in RegenDims, num_shards \in RegenShards :
          \E vectors \in SeqsUpTo(Vectors(dim), RegenVecs) :
             LET r == generate(EmptyDir, EmptyDir, dim, num_shards, vectors)
             IN  /\ files = r.files
                 /\ manifests = r.manifests
                 /\ before = [files |-> r.files, manifests |-> r.manifests]
    /\ last = NoRun
    /\ gens = 1
    /\ raised = NoCall
    /\ pool = <<>>
    /\ mw = [pc |-> "idle"]
    /\ proc = NoProcess
    /\ HandlerIdle

\* dedup_vecs.py:35-108  the command is started: manifest and shard checks,
\* then the single pass that streams the unique vectors to the temp file
RunStart ==
    /\ proc.pc \in {"idle", "killed", "done", "failed"}
    /\ UNCHANGED manifests
    /\ IF META \notin DOMAIN manifests \/ manifests[META] = TruncatedFile
       THEN /\ proc' = [NoProcess EXCEPT !.pc = "failed"]
            /\ UNCHANGED files
       ELSE LET meta       == manifests[META].json
                num_shards == IF "num_shards" \in DOMAIN meta THEN meta.num_shards ELSE 1
                vec_bytes  == meta.dim * 4
                paths      == shard_paths(files, num_shards)
            IN  IF \E i \in 1..Len(paths) : paths[i] \notin DOMAIN files
                THEN /\ proc' = [NoProcess EXCEPT !.pc = "failed"]
                     /\ UNCHANGED files
                ELSE LET opened == WriteFile(files, DEDUP_TMP, <<>>)
                         st     == real_paths(paths, opened, vec_bytes, ScanInit)
                     IN  /\ files' = WriteFile(opened, DEDUP_TMP, st.out)
                         /\ proc' = [pc |-> "scanned", i |-> 0, paths |-> paths,
                                     num_shards |-> num_shards,
                                     vec_bytes |-> vec_bytes,
                                     unique_count |-> st.unique_count,
                                     dupes |-> st.dupes, meta |-> meta]

\* dedup_vecs.py:110-117
AfterScan ==
    /\ proc.pc = "scanned"
    /\ UNCHANGED manifests
    /\ IF proc.dupes = 0
       THEN /\ files' = Unlink(files, DEDUP_TMP)
            /\ proc' = [NoProcess EXCEPT !.pc = "done"]
       ELSE /\ proc' = [proc EXCEPT !.pc = "backup", !.i = 1]
            /\ UNCHANGED files

\* dedup_vecs.py:118-121  the next path: an existing backup is skipped,
\* otherwise shutil.copy2 creates the destination file
BackupOpen ==
    /\ proc.pc = "backup"
    /\ proc.i <= Len(proc.paths)
    /\ UNCHANGED manifests
    /\ LET p == proc.paths[proc.i]
       IN  IF BackupOf(p) \in DOMAIN files
           THEN /\ proc' = [proc EXCEPT !.i = @ + 1]
                /\ UNCHANGED files
           ELSE /\ files' = WriteFile(files, BackupOf(p), <<>>)
                /\ proc' = [proc EXCEPT !.pc = "copying"]

\* dedup_vecs.py:121  shutil.copy2 has copied the content
BackupCopy ==
    /\ proc.pc = "copying"
    /\ UNCHANGED manifests
    /\ LET p == proc.paths[proc.i]
       IN  files' = WriteFile(files, BackupOf(p), files[p])
    /\ proc' = [proc EXCEPT !.pc = "backup", !.i = @ + 1]

\* dedup_vecs.py:122-124  meta.json: skipped when the backup exists
MetaBackupOpen ==
    /\ proc.pc = "backup"
    /\ proc.i > Len(proc.paths)
    /\ UNCHANGED files
    /\ IF BackupOf(META) \in DOMAIN manifests
       THEN /\ proc' = [proc EXCEPT !.pc = "reshard", !.i = 0]
            /\ UNCHANGED manifests
       ELSE /\ manifests' = SetKey(manifests, BackupOf(META), TruncatedFile)
            /\ proc' = [proc EXCEPT !.pc = "metacopying"]

\* dedup_vecs.py:124
MetaBackupCopy ==
    /\ proc.pc = "metacopying"
    /\ UNCHANGED files
    /\ manifests' = [manifests EXCEPT ![BackupOf(META)] = manifests[META]]
    /\ proc' = [proc EXCEPT !.pc = "reshard", !.i = 0]

\* dedup_vecs.py:128-144  shard s: open(shard_file, "wb") truncates it
\* (the division at line 128 needs a shard count other than 0)
ReshardOpen ==
    /\ proc.pc = "reshard"
    /\ proc.num_shards > 0
    /\ proc.i < proc.num_shards
    /\ UNCHANGED manifests
    /\ files' = WriteFile(files, reshard_file(proc.i, proc.num_shards), <<>>)
    /\ proc' = [proc EXCEPT !.pc = "writing"]

\* dedup_vecs.py:145-152  shard s receives its slice of the temp file
ReshardWrite ==
    /\ proc.pc = "writing"
    /\ UNCHANGED manifests
    /\ LET p == reshard_plan(proc.unique_count, proc.num_shards)
           c == dedup_copy_chunks(files[DEDUP_TMP],
                                  p.offsets[proc.i + 1] * proc.vec_bytes,
                                  p.sizes[proc.i + 1] * proc.vec_bytes, <<>>)
       IN  files' = WriteFile(files, reshard_file(proc.i, proc.num_shards), c.dst)
    /\ proc' = [proc EXCEPT !.pc = "reshard", !.i = @ + 1]

\* dedup_vecs.py:154
UnlinkTmp ==
    /\ proc.pc = "reshard"
    /\ proc.num_shards > 0
    /\ proc.i = proc.num_shards
    /\ UNCHANGED manifests
    /\ files' = Unlink(files, DEDUP_TMP)
    /\ proc' = [proc EXCEPT !.pc = "meta"]

\* dedup_vecs.py:157-161  open(meta_path, "w") truncates meta.json
MetaOpen ==
    /\ proc.pc = "meta"
    /\ UNCHANGED files
    /\ manifests' = [manifests EXCEPT ![META] = TruncatedFile]
    /\ proc' = [proc EXCEPT !.pc = "metawriting"]

\* dedup_vecs.py:162-165
MetaWrite ==
    /\ proc.pc = "metawriting"
    /\ UNCHANGED files
    /\ LET p == reshard_plan(proc.unique_count, proc.num_shards)
           loaded == [manifests EXCEPT ![META] = ManifestFile(proc.meta, FALSE)]
       IN  manifests' = dedup_update_meta(loaded, proc.unique_count, p.sizes, p.offsets)
    /\ proc' = [NoProcess EXCEPT !.pc = "done"]

\* The process is killed between two statements of a run.
Kill ==
    /\ proc.pc \notin {"idle", "killed", "done", "failed"}
    /\ proc' = [NoProcess EXCEPT !.pc = "killed"]
    /\ UNCHANGED <<files, manifests>>

crashKept == <<plan, w, V, sdir, sret, mdir, mret, last, before, gens, raised, pool, mw,
               model, tokenizer, req, calls>>

NextCrash ==
    \/ RunStart /\ UNCHANGED crashKept
    \/ AfterScan /\ UNCHANGED crashKept
    \/ BackupOpen /\ UNCHANGED crashKept
    \/ BackupCopy /\ UNCHANGED crashKept
    \/ MetaBackupOpen /\ UNCHANGED crashKept
    \/ MetaBackupCopy /\ UNCHANGED crashKept
    \/ ReshardOpen /\ UNCHANGED crashKept
    \/ ReshardWrite /\ UNCHANGED crashKept
    \/ UnlinkTmp /\ UNCHANGED crashKept
    \/ MetaOpen /\ UNCHANGED crashKept
    \/ MetaWrite /\ UNCHANGED crashKept
    \/ Kill /\ UNCHANGED crashKept

SpecCrash == InitCrash /\ [][NextCrash]_vars

---------------------------------------------------------------------------
(* SpecLifecycle: one StreamingVecWriter whose finalize is called again     *)
(* after it has returned                                                    *)

InitLifecycle ==
    /\ plan = PlanIdle
    /\ DedupIdle
    /\ w \in {[dim |-> d, num_shards |-> k, count |-> 0, closed |-> FALSE] :
                d \in RegenDims, k \in 0..MaxShards}
    /\ V = <<>>
    /\ sdir = (STREAM_TMP :> <<>>)
    /\ sret = NoRet
    /\ mdir = EmptyDir
    /\ mret = NoRet
    /\ AuxIdle

\* vec_io.py:91-100  another StreamingVecWriter is constructed on the same
\* output_dir after this one was finalized: open(tmp, "wb") creates the temp
\* file again
OpenAnother ==
    /\ w.closed
    /\ STREAM_TMP \notin DOMAIN sdir
    /\ sdir' = WriteFile(sdir, STREAM_TMP, <<>>)
    /\ UNCHANGED <<w, V, sret, mdir, mret, raised>>

\* vec_io.py:111-151  finalize called on a writer that was finalized before:
\* close() of the closed file does nothing and the rest runs as the first time
FinalizeAgain ==
    /\ w.closed
    /\ raised.op = "none"
    /\ LET r == finalize(w, sdir)
       IN  /\ sdir' = r.dir
           /\ raised' = [op |-> "finalize",
                         error |-> IF r.hang THEN "hang" ELSE r.error]
    /\ UNCHANGED <<w, V, sret, mdir, mret>>

NextLifecycle ==
    \/ AppendBatch /\ UNCHANGED <<planVars, dedupVars, auxVars>>
    \/ Finalize /\ UNCHANGED <<planVars, dedupVars, auxVars>>
    \/ OpenAnother /\ UNCHANGED <<planVars, dedupVars, pool, mw, proc, handlerVars>>
    \/ FinalizeAgain /\ UNCHANGED <<planVars, dedupVars, pool, mw, proc, handlerVars>>

SpecLifecycle == InitLifecycle /\ [][NextLifecycle]_vars

---------------------------------------------------------------------------
(* SpecEncode: one call of a write path with vectors of any length          *)

\* The vectors of length d, and vectors one shorter and one longer than d.
AnyVectors(d) == Vectors(d) \cup {[i \in 1..n |-> 1] : n \in {d - 1, d + 1}}

\* A writer that has accepted at most one vector so far.
InitEncode ==
    /\ plan = PlanIdle
    /\ DedupIdle
    /\ \E d \in Dims : \E first \in SeqsUpTo(Vectors(d), 1) :
          LET a == append_batch([dim |-> d, num_shards |-> 1, count |-> 0,
                                 closed |-> FALSE],
                                (STREAM_TMP :> <<>>), first)
          IN  /\ w = a.w
              /\ sdir = a.dir
              /\ V = <<first>>
    /\ sret = NoRet
    /\ mdir = EmptyDir
    /\ mret = NoRet
    /\ AuxIdle

AppendAny ==
    /\ raised.op = "none"
    /\ \E batch \in SeqsUpTo(AnyVectors(w.dim), MaxBatch) :
          LET r == append_batch(w, sdir, batch)
          IN  /\ w' = r.w
              /\ sdir' = r.dir
              /\ raised' = [op |-> "append_batch", error |-> r.error,
                            vectors |-> batch, prev |-> sdir[STREAM_TMP]]
    /\ UNCHANGED <<V, sret, mdir, mret>>

WriteVecFileAny ==
    /\ raised.op = "none"
    /\ \E vectors \in SeqsUpTo(AnyVectors(w.dim), MaxBatch) :
          LET r == write_vec_file(mdir, QUERIES_VEC, vectors, w.dim)
          IN  /\ mdir' = r.dir
              /\ raised' = [op |-> "write_vec_file",
                            error |-> IF r.ok THEN "none" ELSE "ValueError",
                            vectors |-> vectors, prev |-> <<>>]
    /\ UNCHANGED <<w, V, sdir, sret, mret>>

NextEncode ==
    \/ AppendAny /\ UNCHANGED <<planVars, dedupVars, pool, mw, proc, handlerVars>>
    \/ WriteVecFileAny /\ UNCHANGED <<planVars, dedupVars, pool, mw, proc, handlerVars>>

SpecEncode == InitEncode /\ [][NextEncode]_vars

---------------------------------------------------------------------------
(* Properties of the shard partition (SpecPlan) *)

\* What the Shard Planner promises for total n and shard count k.
PlanOK(p, n, k) ==
    /\ Len(p.sizes) = k
    /\ Len(p.offsets) = k
    /\ SumSeq(p.sizes) = n
    /\ p.offsets[1] = 0
    /\ \A i \in 1..(k - 1) : p.offsets[i + 1] = p.offsets[i] + p.sizes[i]
    /\ \A i, j \in 1..k : p.sizes[i] - p.sizes[j] <= 1
    /\ {i \in 1..k : \E j \in 1..k : p.sizes[i] > p.sizes[j]} = 1..(n % k)

\* C1: for every n >= 0 and k >= 1 the partitions computed by write_vec_shards,
\* by StreamingVecWriter.finalize and by the re-shard step of dedup each have k
\* sizes that sum to n, offsets that start at 0 and grow by the sizes, sizes that
\* differ by at most 1 with the larger size on exactly the first n mod k shards;
\* and the three are the same.
C1_PartitionExact ==
    /\ "wvs" \in plan.done => PlanOK(plan.wvs, plan.n, plan.k)
    /\ "fin" \in plan.done => PlanOK(plan.fin, plan.n, plan.k)
    /\ "ded" \in plan.done => PlanOK(plan.ded, plan.n, plan.k)
    /\ \A a, b \in plan.done : plan[a] = plan[b]

C1_Witness ==
    /\ plan.done = {"wvs", "fin", "ded"}
    /\ plan.k > 1
    /\ plan.n > plan.k
    /\ plan.n % plan.k # 0

---------------------------------------------------------------------------
(* Properties of the two writers (SpecWriter) *)

ShardBytes(dir, ret) == [i \in 1..Len(ret.paths) |-> dir[ret.paths[i]]]

\* C2: however the vectors were split into append_batch calls, the shard files
\* the streaming writer leaves are byte-identical, shard by shard, to those
\* write_vec_shards writes for the same vectors, dim and shard count, and both
\* return the same shard sizes and offsets.
C2_StreamingEqualsInMemory ==
    (sret.done /\ mret.done) =>
        /\ sret.sizes = mret.sizes
        /\ sret.offsets = mret.offsets
        /\ Len(sret.paths) = Len(mret.paths)
        /\ ShardBytes(sdir, sret) = ShardBytes(mdir, mret)

C2_Witness ==
    /\ sret.done
    /\ mret.done
    /\ w.num_shards = 2
    /\ w.dim = 2
    /\ Len(V) = 2
    /\ Len(AllVectors) = 3
    /\ AllVectors[1] # AllVectors[2]

EncodeAll(vectors) == Concat([i \in 1..Len(vectors) |-> struct_pack(vectors[i])])

\* C3: after finalize the shard files concatenated in shard order are the temp
\* file as it was when finalize was called, which is the encodings of every
\* appended vector in call order; shard i holds exactly the records
\* [offset[i], offset[i] + size[i]).
C3_FinalizeRepartitions ==
    sret.done =>
        /\ Concat(ShardBytes(sdir, sret)) = sret.tmp
        /\ sret.tmp = EncodeAll(AllVectors)
        /\ \A i \in 1..Len(sret.paths) :
              sdir[sret.paths[i]] =
                  EncodeAll(Slice(AllVectors, sret.offsets[i],
                                  sret.offsets[i] + sret.sizes[i]))

C3_Witness ==
    /\ sret.done
    /\ w.num_shards = 3
    /\ Len(V) = 3
    /\ Len(AllVectors) = 2
    /\ AllVectors[1] # AllVectors[2]
    /\ STREAM_TMP \notin DOMAIN sdir

---------------------------------------------------------------------------
(* Properties of the dedup tool (SpecDedup, SpecRegen) *)

NumShardsOf(meta) == IF "num_shards" \in DOMAIN meta THEN meta.num_shards ELSE 1

\* The complete records of a vec file.
RecordsIn(bytes, vec_bytes) ==
    [i \in 1..(Len(bytes) \div vec_bytes) |->
        SubSeq(bytes, (i - 1) * vec_bytes + 1, i * vec_bytes)]

\* The shard files the manifest of a directory names, in shard order.
DatasetPaths(fs, ms) == shard_paths(fs, NumShardsOf(ms[META].json))

\* The logical record sequence of a dataset: shards in order, records in file order.
DatasetRecords(fs, ms) ==
    LET paths == DatasetPaths(fs, ms)
    IN  Concat([i \in 1..Len(paths) |-> RecordsIn(fs[paths[i]], ms[META].json.dim * 4)])

Distinct(rs) == {rs[i] : i \in 1..Len(rs)}

\* The positions whose record occurred at an earlier position.
Repeats(rs) == {i \in 1..Len(rs) : \E j \in 1..(i - 1) : rs[j] = rs[i]}

RECURSIVE FirstOccurrencesFrom(_, _)
FirstOccurrencesFrom(rs, i) ==
    IF i > Len(rs) THEN <<>>
    ELSE (IF i \in Repeats(rs) THEN <<>> ELSE <<rs[i]>>) \o FirstOccurrencesFrom(rs, i + 1)

FirstOccurrences(rs) == FirstOccurrencesFrom(rs, 1)

RecordsBefore == DatasetRecords(before.files, before.manifests)
RecordsNow == DatasetRecords(files, manifests)

Applied == last.op = "apply" /\ last.report.exit = "ok"
DryRan == last.op = "dry" /\ last.report.exit = "ok"

\* C4: when the records of the shard set hold u distinct byte patterns among
\* n > u records, apply mode leaves exactly u records, each pattern once, in
\* the order of first occurrence (shards in order, records in file order), and
\* sets num_docs to u.
C4_DedupKeepsFirstOccurrences ==
    (Applied /\ Cardinality(Distinct(RecordsBefore)) < Len(RecordsBefore)) =>
        LET u == Cardinality(Distinct(RecordsBefore))
        IN  /\ Len(RecordsNow) = u
            /\ Distinct(RecordsNow) = Distinct(RecordsBefore)
            /\ Repeats(RecordsNow) = {}
            /\ RecordsNow = FirstOccurrences(RecordsBefore)
            /\ manifests[META].json.num_docs = u

C4_Witness ==
    /\ Applied
    /\ NumShardsOf(before.manifests[META].json) = 2
    /\ before.manifests[META].json.dim = 2
    /\ Len(RecordsBefore) = 3
    /\ RecordsBefore[1] = RecordsBefore[2]
    /\ RecordsBefore[1] # RecordsBefore[3]
    /\ Len(RecordsNow) = 2

\* C5: an apply run that directly follows an apply run finds zero duplicates
\* and leaves every shard file, the manifest and every backup file as the
\* first run left them.
C5_SecondApplyIsNoOp ==
    (Applied /\ last.again) =>
        /\ last.report.dupes = 0
        /\ files = before.files
        /\ manifests = before.manifests

C5_Witness ==
    /\ Applied
    /\ last.again
    /\ BackupOf(ShardName(1)) \in DOMAIN files
    /\ BackupOf(META) \in DOMAIN manifests
    /\ files[BackupOf(ShardName(1))] # files[ShardName(1)]

\* C6: apply mode on a dataset without duplicates reports zero duplicates and
\* changes no file: no shard file or manifest is rewritten, no backup is
\* created, and the temp file does not exist when the run returns.
C6_ApplyWithoutDuplicatesChangesNothing ==
    (Applied /\ Repeats(RecordsBefore) = {}) =>
        /\ last.report.dupes = 0
        /\ last.report.total = Len(RecordsBefore)
        /\ files = before.files
        /\ manifests = before.manifests
        /\ DEDUP_TMP \notin DOMAIN files

C6_Witness ==
    /\ Applied
    /\ ~last.again
    /\ Len(RecordsBefore) = 3
    /\ Repeats(RecordsBefore) = {}
    /\ DOMAIN manifests = {META}

\* C7: dry-run mode reports total = the complete records over all shards,
\* d = the records whose byte pattern occurred earlier, unique = total - d,
\* and writes nothing: every file is as before, no temp or backup file appears.
C7_DryRunCountsAndWritesNothing ==
    DryRan =>
        /\ last.report.total = Len(RecordsBefore)
        /\ last.report.dupes = Cardinality(Repeats(RecordsBefore))
        /\ last.report.unique = last.report.total - last.report.dupes
        /\ last.report.unique = Cardinality(Distinct(RecordsBefore))
        /\ files = before.files
        /\ manifests = before.manifests
        /\ DEDUP_TMP \notin DOMAIN files

C7_Witness ==
    /\ DryRan
    /\ last.report.total = 3
    /\ last.report.dupes = 2
    /\ NumShardsOf(manifests[META].json) = 3

\* Shard set and manifest agree: num_docs records in all; where the manifest
\* lists shard_sizes there is one per shard file, they sum to num_docs and
\* shard file i is exactly shard_sizes[i] records of dim*4 bytes; where it
\* lists shard_doc_offsets each is the sum of the sizes before it.
Consistent(fs, ms) ==
    LET meta  == ms[META].json
        paths == DatasetPaths(fs, ms)
        vec_bytes == meta.dim * 4
    IN  /\ \A i \in 1..Len(paths) : paths[i] \in DOMAIN fs
        /\ \A i \in 1..Len(paths) : Len(fs[paths[i]]) % vec_bytes = 0
        /\ meta.num_docs = Len(DatasetRecords(fs, ms))
        /\ "shard_sizes" \in DOMAIN meta =>
              /\ Len(meta.shard_sizes) = Len(paths)
              /\ SumSeq(meta.shard_sizes) = meta.num_docs
              /\ \A i \in 1..Len(paths) :
                    Len(fs[paths[i]]) = meta.shard_sizes[i] * vec_bytes
        /\ "shard_doc_offsets" \in DOMAIN meta =>
              /\ "shard_sizes" \in DOMAIN meta
              /\ Len(meta.shard_doc_offsets) = Len(meta.shard_sizes)
              /\ \A i \in 1..Len(meta.shard_sizes) :
                    meta.shard_doc_offsets[i] =
                        SumSeq(SubSeq(meta.shard_sizes, 1, i - 1))

\* C8: after every apply run that returns normally the shard set and the
\* manifest are consistent; a run that removed duplicates has written both
\* shard_sizes and shard_doc_offsets.
C8_ApplyLeavesConsistentDataset ==
    Applied =>
        /\ Consistent(files, manifests)
        /\ last.report.dupes > 0 =>
              {"shard_sizes", "shard_doc_offsets"} \subseteq DOMAIN manifests[META].json

C8_Witness ==
    /\ Applied
    /\ last.report.dupes = 1
    /\ last.report.unique = 2
    /\ NumShardsOf(manifests[META].json) = 3
    /\ manifests[META].json.shard_sizes = <<1, 1, 0>>
    /\ manifests[META].json.shard_doc_offsets = <<0, 1, 2>>

BackedUp == Applied /\ last.report.dupes > 0 /\ ~last.no_backup

PathsBefore == DatasetPaths(before.files, before.manifests)

\* C9 as stated: after an apply run that found duplicates with backups
\* requested, the backup of every shard file and of the manifest is a copy of
\* what that file held just before the run.
C9_BackupIsPreRunCopy ==
    BackedUp =>
        /\ \A i \in 1..Len(PathsBefore) :
              /\ BackupOf(PathsBefore[i]) \in DOMAIN files
              /\ files[BackupOf(PathsBefore[i])] = before.files[PathsBefore[i]]
        /\ BackupOf(META) \in DOMAIN manifests
        /\ manifests[BackupOf(META)] = before.manifests[META]

\* The backup of p after the run: a copy of p as it was, unless a backup
\* existed when the run started, which is then left as it was.
BackupKept(dir_now, dir_before, p) ==
    /\ BackupOf(p) \in DOMAIN dir_now
    /\ dir_now[BackupOf(p)] =
          IF BackupOf(p) \in DOMAIN dir_before THEN dir_before[BackupOf(p)]
          ELSE dir_before[p]

\* C9 amended: after an apply run that found duplicates with backups requested,
\* every shard file and the manifest has a backup; it is a byte-identical copy
\* of what the file held just before the run when no backup existed at the
\* start of the run, and the backup that already existed, unchanged, otherwise.
C9_BackupIsPreRunCopyUnlessPresent ==
    BackedUp =>
        /\ \A i \in 1..Len(PathsBefore) : BackupKept(files, before.files, PathsBefore[i])
        /\ BackupKept(manifests, before.manifests, META)

C9_Witness ==
    /\ BackedUp
    /\ PathsBefore = <<ShardName(0), ShardName(1)>>
    /\ BackupOf(ShardName(0)) \in DOMAIN before.files
    /\ before.files[BackupOf(ShardName(0))] # before.files[ShardName(0)]
    /\ files[BackupOf(ShardName(0))] = before.files[BackupOf(ShardName(0))]

BackupNames == {BackupOf(DOCS_VEC)} \cup {BackupOf(ShardName(i)) : i \in 0..MaxShards}

\* C10: a backup file that exists is never changed or removed by a later run.
C10_BackupNeverOverwritten ==
    [][/\ \A b \in BackupNames \cap DOMAIN files :
             b \in DOMAIN files' /\ files'[b] = files[b]
       /\ BackupOf(META) \in DOMAIN manifests =>
             /\ BackupOf(META) \in DOMAIN manifests'
             /\ manifests'[BackupOf(META)] = manifests[BackupOf(META)]]_vars

C10_Witness ==
    /\ BackedUp
    /\ BackupOf(META) \in DOMAIN before.manifests
    /\ manifests[BackupOf(META)] = before.manifests[BackupOf(META)]
    /\ BackupOf(DOCS_VEC) \in DOMAIN before.files
    /\ PathsBefore = <<DOCS_VEC>>
    /\ before.files[BackupOf(DOCS_VEC)] # before.files[DOCS_VEC]
    /\ files[BackupOf(DOCS_VEC)] # before.files[DOCS_VEC]

---------------------------------------------------------------------------
(* Properties of the writer's error paths (SpecLifecycle, SpecEncode) *)

\* C11: the first finalize call succeeds and every later finalize call on the
\* same writer fails with an AlreadyFinalized error.
C11_RepeatedFinalizeIsAlreadyFinalized ==
    raised.op = "finalize" => (sret.done /\ raised.error = "AlreadyFinalized")

\* The vectors before the first one whose length is not dim.
RECURSIVE GoodPrefix(_, _)
GoodPrefix(vectors, dim) ==
    IF vectors = <<>> \/ Len(Head(vectors)) # dim THEN <<>>
    ELSE <<Head(vectors)>> \o GoodPrefix(Tail(vectors), dim)

Mismatch(vectors, dim) == \E i \in 1..Len(vectors) : Len(vectors[i]) # dim

\* C12: write_vec_file and append_batch fail exactly when some vector's length
\* differs from dim, and the file then holds what it held before the call
\* (nothing, for write_vec_file) followed by the encodings of the vectors
\* before the offending one: no byte of the offending vector is written.
C12_MismatchFailsAndWritesNothing ==
    /\ raised.op = "append_batch" =>
          /\ (raised.error # "none") = Mismatch(raised.vectors, w.dim)
          /\ sdir[STREAM_TMP] =
                raised.prev \o EncodeAll(GoodPrefix(raised.vectors, w.dim))
          /\ Len(sdir[STREAM_TMP]) = w.count * w.dim * 4
    /\ raised.op = "write_vec_file" =>
          /\ (raised.error # "none") = Mismatch(raised.vectors, w.dim)
          /\ mdir[QUERIES_VEC] = EncodeAll(GoodPrefix(raised.vectors, w.dim))

C12_Witness ==
    /\ raised.op = "append_batch"
    /\ raised.error = "struct.error"
    /\ w.dim = 2
    /\ raised.prev # <<>>
    /\ Len(raised.vectors) = 2
    /\ Len(raised.vectors[1]) = 2
    /\ Len(raised.vectors[2]) = 3
    /\ Len(sdir[STREAM_TMP]) = 16

UpdatedKeys == {"num_docs", "shard_sizes", "shard_doc_offsets"}

\* C14: an apply run changes no manifest key other than num_docs, shard_sizes
\* and shard_doc_offsets: every other key the manifest had before the run is
\* there after it with the same value, and no other key is added.
C14_ManifestUpdateKeepsOtherKeys ==
    Applied =>
        LET old == before.manifests[META].json
            new == manifests[META].json
        IN  /\ \A k \in DOMAIN old \ UpdatedKeys : k \in DOMAIN new /\ new[k] = old[k]
            /\ DOMAIN new \subseteq DOMAIN old \cup UpdatedKeys

C14_Witness ==
    /\ Applied
    /\ last.report.dupes > 0
    /\ "shard_sizes" \notin DOMAIN before.manifests[META].json
    /\ "shard_sizes" \in DOMAIN manifests[META].json
    /\ manifests[META].json.num_docs # before.manifests[META].json.num_docs
    /\ manifests[META].json.dataset_name = "unit-data"
    /\ manifests[META].json.dim = 2

---------------------------------------------------------------------------
(* Properties of the dedup tool on every configuration (SpecConfig) *)

\* The records now held by the files that the run read as shards.
RecordsNowAtPathsRead ==
    Concat([i \in 1..Len(PathsBefore) |->
               IF PathsBefore[i] \in DOMAIN files
               THEN RecordsIn(files[PathsBefore[i]], before.manifests[META].json.dim * 4)
               ELSE <<>>])

\* C13: after an apply run that found duplicates, the re-shard step has used
\* the original shard count and has written the files the read phase read:
\* those files now hold the deduplicated records and nothing else.
C13_ReshardWritesThePathsRead ==
    (Applied /\ last.report.dupes > 0) =>
        /\ Len(manifests[META].json.shard_sizes) = Len(PathsBefore)
        /\ RecordsNowAtPathsRead = FirstOccurrences(RecordsBefore)

Ran == last.op \in {"dry", "apply"}

ManifestMissingBefore == META \notin DOMAIN before.manifests

ShardMissingBefore ==
    /\ META \in DOMAIN before.manifests
    /\ \E i \in 1..Len(PathsBefore) : PathsBefore[i] \notin DOMAIN before.files

\* C15: a dedup run, dry or apply, on a directory whose meta.json is missing
\* or one of whose expected shard files is absent exits with status 1 and
\* leaves the directory exactly as it was: no temp file, no backup, no change.
C15_MissingFileFailsBeforeAnyChange ==
    (Ran /\ (ManifestMissingBefore \/ ShardMissingBefore)) =>
        /\ last.report.exit = "exit1"
        /\ files = before.files
        /\ manifests = before.manifests

C15_Witness ==
    /\ last.op = "apply"
    /\ last.report.exit = "exit1"
    /\ META \in DOMAIN manifests
    /\ NumShardsOf(manifests[META].json) = 2
    /\ ShardName(1) \notin DOMAIN files
    /\ Len(files[ShardName(0)]) = 4
    /\ DEDUP_TMP \notin DOMAIN files

\* The directory with the manifest's shard count set to 1.
WithOneShard(ms) ==
    [ms EXCEPT ![META] = ManifestFile(SetKey(@.json, "num_shards", 1), @.nl)]

ZeroOrUnsetBefore ==
    /\ META \in DOMAIN before.manifests
    /\ \/ "num_shards" \notin DOMAIN before.manifests[META].json
       \/ before.manifests[META].json.num_shards = 0

\* C16: on a dataset whose manifest has shard count 0 or no shard count, a
\* dedup run (dry or apply) ends normally and reports and leaves the files it
\* would for shard count 1: a single docs.vec holding the unique records.
C16_ZeroOrUnsetShardCountIsOne ==
    (Ran /\ ZeroOrUnsetBefore /\ ~ShardMissingBefore
         /\ before.manifests[META].json.dim >= 1) =>
        LET one == dedup(before.files, WithOneShard(before.manifests),
                         last.op = "dry", last.no_backup)
        IN  /\ last.report.exit = "ok"
            /\ last.report = one.report
            /\ files = one.files
            /\ manifests[META].json.num_docs = one.manifests[META].json.num_docs

BadDimBefore ==
    /\ META \in DOMAIN before.manifests
    /\ before.manifests[META].json.dim <= 0

\* C17: a dedup run, dry or apply, on a dataset whose manifest has dim <= 0
\* ends with exit status 1 and leaves the directory as it was.
C17_BadDimensionFailsFast ==
    (Ran /\ BadDimBefore) =>
        /\ last.report.exit = "exit1"
        /\ files = before.files
        /\ manifests = before.manifests

---------------------------------------------------------------------------
(* Properties of the parallel shard writer (SpecPool) *)

\* C18: the tasks of write_vec_shards have pairwise distinct output files and
\* pairwise disjoint slices; whatever the order and interleaving of their
\* steps, each file holds only what its own task has written of its own
\* slice; and when write_vec_shards returns every task has finished and the
\* files and the returned sizes and offsets are those of the tasks run one
\* after the other.
C18_TasksIndependentAndJoined ==
    /\ \A i, j \in 1..Len(pool) :
          i # j => /\ pool[i].path # pool[j].path
                   /\ pool[i].end <= pool[j].begin \/ pool[j].end <= pool[i].begin
    /\ \A i \in 1..Len(pool) :
          IF pool[i].st = "queued" THEN pool[i].path \notin DOMAIN mdir
          ELSE mdir[pool[i].path] =
                   EncodeAll(SubSeq(pool[i].vectors, 1, pool[i].written))
    /\ mret.done =>
          LET r == write_vec_shards(EmptyDir, AllVectors, w.dim, w.num_shards)
          IN  /\ \A i \in 1..Len(pool) : pool[i].st = "done"
              /\ mdir = r.dir
              /\ mret.paths = r.ret.paths
              /\ mret.sizes = r.ret.sizes
              /\ mret.offsets = r.ret.offsets

C18_Witness ==
    /\ mret.done
    /\ Len(pool) = 3
    /\ Len(AllVectors) = 3
    /\ AllVectors[1] # AllVectors[2]
    /\ AllVectors[2] # AllVectors[3]
    /\ \A i \in 1..3 : pool[i].written = 1

---------------------------------------------------------------------------
(* Properties of the manifest write (SpecManifest) *)

\* C19: whenever another process reads the manifest path while the manifest
\* is being overwritten, what it reads is the complete old manifest or the
\* complete new one.
C19_ReaderSeesOldOrNewManifest ==
    mw.seen # NotRead => (mw.seen = mw.old \/ mw.seen = mw.new)

---------------------------------------------------------------------------
(* Properties of killed and repeated dedup apply runs (SpecCrash) *)

OriginalShards == DOMAIN before.files \ {QUERIES_VEC}

\* C20: with backups on, whatever runs of dedup apply were killed at whatever
\* step and run again, every original shard file and the manifest either
\* still holds its original bytes or has a `.pre-dedup` backup that is a
\* complete copy of them.
C20_OriginalOrCompleteBackup ==
    /\ \A p \in OriginalShards :
          \/ files[p] = before.files[p]
          \/ /\ BackupOf(p) \in DOMAIN files
             /\ files[BackupOf(p)] = before.files[p]
    /\ \/ manifests[META] = before.manifests[META]
       \/ /\ BackupOf(META) \in DOMAIN manifests
          /\ manifests[BackupOf(META)] = before.manifests[META]

---------------------------------------------------------------------------
(* Properties of the recorded output paths (SpecOutput) *)

\* C22: after a completed generator run with num_shards <= 1, in either
\* output mode, the manifest's output_docs_vec names a file that exists and
\* holds num_docs records of dim floats: the file finalize wrote.
C22_RecordedDocsPathIsTheFileWritten ==
    \A m \in DOMAIN manifests :
        LET meta == manifests[m].json
        IN  "num_shards" \notin DOMAIN meta =>
                /\ meta.output_docs_vec \in DOMAIN files
                /\ Len(files[meta.output_docs_vec]) = meta.num_docs * meta.dim * 4

---------------------------------------------------------------------------
(* Properties of the embedding handler's model handle (SpecHandler) *)

\* C21: however the first handle calls interleave while the model is unset,
\* get_model is executed at most once, and every call that has answered used
\* the model and the tokenizer of that one execution.
C21_ModelInitialisedOnce ==
    /\ calls <= 1
    /\ \A r \in DOMAIN req :
          req[r].pc = "done" => (req[r].used_model = 1 /\ req[r].used_tokenizer = 1)

====
